---- MODULE Spec2Model ----
(***************************************************************************)
(* Voyage scheduling and buffer (tank) simulation of fleet_list            *)
(* (src/app.py: Leg, Route, VoyageScheduler, TankSimulation and the        *)
(* summary metrics of export_to_excel).                                    *)
(*                                                                         *)
(* Timestamps and durations are integers counting fractions of a day:      *)
(* one day is UnitsPerDay units, so the sliders' 0.5-day steps are exact.  *)
(* A datetime is the number of units since an arbitrary epoch; a           *)
(* timedelta is a (possibly negative) number of units.                     *)
(***************************************************************************)
EXTENDS Integers, Sequences, FiniteSets, TLC

VARIABLES
    river_scheduler,  \* the VoyageScheduler of the inflow (river) fleet
    sea_scheduler,    \* the VoyageScheduler of the outflow (sea) fleet
    tank_sim,         \* the TankSimulation: capacity, level, events, tank_log
    summary,          \* the summary values of export_to_excel
    status,           \* per object: "unbuilt", "built", or "raised"
    error,            \* per object: the exception its construction raised
    runs              \* how many times TankSimulation(...) has been called

vars == <<river_scheduler, sea_scheduler, tank_sim, summary, status, error, runs>>

(***************************************************************************)
(* Bounds of the model and the input sets the constructors draw from.      *)
(***************************************************************************)
UnitsPerDay == 2

MaxShips == 2

MaxLegs == 2

\* simulations run over one pair of schedulers
MaxRuns == 2

Fleets == {"river", "sea"}

\* The inputs. Only the offset between the two fleets' start dates matters,
\* so the river fleet's start is fixed; the tank capacities include the
\* values <= 0 that the constructor does not refuse.
\* <<duration_days, operation_days>> of a leg, in units
LegTimes(fleet) ==
    IF fleet = "river" THEN {<<2, 1>>, <<1, 2>>} ELSE {<<3, 1>>}

StartChoices(fleet) == IF fleet = "river" THEN {2} ELSE {0, 3, 5}

IntervalChoices(fleet) == IF fleet = "river" THEN {0, 1, 3} ELSE {0, 2}

\* num_ships is not validated: 0 and a negative count are inputs too
NumShipsChoices(fleet) == (0 - 1)..MaxShips

ShipCapacityChoices(fleet) == IF fleet = "river" THEN {2, 3} ELSE {1, 3}

TankCapacityChoices == {0 - 1, 0, 2, 4}

(***************************************************************************)
(* Leg and Route                                                           *)
(***************************************************************************)
Leg(name, port_from, port_to, duration_days, operation_days) ==
    [name |-> name, port_from |-> port_from, port_to |-> port_to,
     duration_days |-> duration_days, operation_days |-> operation_days]

Route(name, legs, ship_capacity) ==
    [name |-> name, legs |-> legs, ship_capacity |-> ship_capacity]

\* Route.get_ports: [legs[0].port_from] + [leg.port_to for leg in legs];
\* legs[0] raises IndexError on an empty leg list (get_ports_raises).
get_ports_raises(route) == route.legs = <<>>

get_ports(route) ==
    <<route.legs[1].port_from>> \o
        [i \in 1..Len(route.legs) |-> route.legs[i].port_to]

\* list[-1]
Last(s) == s[Len(s)]

\* the routes a fleet can be given: 0..MaxLegs legs, leg i running from
\* port <<fleet, i-1>> to port <<fleet, i>>
LegsOfLength(fleet, n) ==
    { [i \in 1..n |-> Leg(<<fleet, i>>, <<fleet, i - 1>>, <<fleet, i>>,
                          t[i][1], t[i][2])] :
        t \in [1..n -> LegTimes(fleet)] }

RouteChoices(fleet) ==
    { Route(fleet, legs, c) :
        legs \in UNION { LegsOfLength(fleet, n) : n \in 0..MaxLegs },
        c \in ShipCapacityChoices(fleet) }

(***************************************************************************)
(* datetime / timedelta                                                    *)
(***************************************************************************)
\* timedelta(days=x): x is already held in units
timedelta(days) == days

\* timedelta.days: whole days, rounded towards minus infinity
days(delta) == delta \div UnitsPerDay

(***************************************************************************)
(* VoyageScheduler                                                         *)
(***************************************************************************)
\* leg_stop numbering the legs from 0
leg_stop_zero_based(leg, i, current_time) ==
    LET leg_start == current_time
        arrival == leg_start + timedelta(leg.duration_days)
        leg_end == arrival + timedelta(leg.operation_days)
    IN  [leg_no |-> i,
         leg |-> leg.name,
         port_from |-> leg.port_from,
         port_to |-> leg.port_to,
         departure |-> leg_start,
         arrival |-> arrival,
         operation_end |-> leg_end,
         voyage_time_days |-> leg.duration_days,
         operation_days |-> leg.operation_days]

\* one pass of the loop body of _calculate_voyage: the stop of leg number
\* i + 1 (i is enumerate's 0-based index) entered at current_time
leg_stop(leg, i, current_time) ==
    LET leg_start == current_time
        arrival == leg_start + timedelta(leg.duration_days)
        leg_end == arrival + timedelta(leg.operation_days)
    IN  [leg_no |-> i + 1,
         leg |-> leg.name,
         port_from |-> leg.port_from,
         port_to |-> leg.port_to,
         departure |-> leg_start,
         arrival |-> arrival,
         operation_end |-> leg_end,
         voyage_time_days |-> leg.duration_days,
         operation_days |-> leg.operation_days]

\* next_current_time leaving at the arrival, before the operation
next_current_time_arrival(stop) == stop.arrival

\* current_time = leg_end
next_current_time(stop) == stop.operation_end

\* for i, leg in enumerate(route.legs), from 0-based index i on
RECURSIVE walk_legs(_, _, _, _)
walk_legs(legs, i, current_time, itinerary) ==
    IF i >= Len(legs) THEN
        [itinerary |-> itinerary, current_time |-> current_time]
    ELSE
        LET stop == leg_stop(legs[i + 1], i, current_time)
        IN  walk_legs(legs, i + 1, next_current_time(stop),
                      Append(itinerary, stop))

\* voyage_total rounding a started day up
voyage_total_rounded_up(current_time, departure) ==
    0 - days(departure - current_time)

\* (current_time - departure).days
voyage_total(current_time, departure) == days(current_time - departure)

_calculate_voyage(route, ship_id, departure) ==
    LET walked == walk_legs(route.legs, 0, departure, <<>>)
    IN  [ship_id |-> ship_id,
         route |-> route.name,
         ship_name |-> <<"Ship", ship_id>>,
         capacity |-> route.ship_capacity,
         itinerary |-> walked.itinerary,
         total_voyage_time |-> voyage_total(walked.current_time, departure),
         arrival_final |-> walked.current_time]

\* ship_departure counting the interval from ship 0
ship_departure_from_zero(start_date, interval_days, ship_id) ==
    start_date + timedelta(ship_id * interval_days)

\* ship_departure with one day between ships whatever the interval
ship_departure_daily(start_date, interval_days, ship_id) ==
    start_date + timedelta((ship_id - 1) * UnitsPerDay)

\* departure of ship ship_id
ship_departure(start_date, interval_days, ship_id) ==
    start_date + timedelta((ship_id - 1) * interval_days)

\* for ship_id in range(1, num_ships + 1): voyages.append(...)
RECURSIVE _generate_voyages(_, _, _, _, _, _)
_generate_voyages(route, start_date, num_ships, interval_days, ship_id, voyages) ==
    IF ship_id >= num_ships + 1 THEN voyages
    ELSE LET departure == ship_departure(start_date, interval_days, ship_id)
             voyage == _calculate_voyage(route, ship_id, departure)
         IN  _generate_voyages(route, start_date, num_ships, interval_days,
                               ship_id + 1, Append(voyages, voyage))

\* VoyageScheduler.__init__
VoyageScheduler(route, start_date, num_ships, interval_days) ==
    [route |-> route,
     start_date |-> start_date,
     num_ships |-> num_ships,
     interval_days |-> interval_days,
     voyages |-> _generate_voyages(route, start_date, num_ships,
                                   interval_days, 1, <<>>)]

(***************************************************************************)
(* TankSimulation                                                          *)
(***************************************************************************)
\* river_event timed at the end of the unloading instead of the arrival
river_event_operation_end(voyage, transfer_port) ==
    LET last_stop == Last(voyage.itinerary)
    IN  [time |-> last_stop.operation_end,
         type |-> "river_arrival",
         ship |-> voyage.ship_name,
         port |-> transfer_port,
         volume |-> voyage.capacity]

\* the event of one river voyage (lines 148-155)
river_event(voyage, transfer_port) ==
    LET last_stop == Last(voyage.itinerary)
    IN  [time |-> last_stop.arrival,
         type |-> "river_arrival",
         ship |-> voyage.ship_name,
         port |-> transfer_port,
         volume |-> voyage.capacity]

\* sea_event tagged with the sea voyage's own port of departure
sea_event_own_port(voyage, transfer_port) ==
    LET first_stop == voyage.itinerary[1]
    IN  [time |-> first_stop.departure,
         type |-> "sea_departure",
         ship |-> voyage.ship_name,
         port |-> first_stop.port_from,
         volume |-> voyage.capacity]

\* the event of one sea voyage (lines 158-165)
sea_event(voyage, transfer_port) ==
    LET first_stop == voyage.itinerary[1]
    IN  [time |-> first_stop.departure,
         type |-> "sea_departure",
         ship |-> voyage.ship_name,
         port |-> transfer_port,
         volume |-> voyage.capacity]

\* self.events after the two append loops, before the sort
build_events(river, sea) ==
    LET transfer_port == Last(get_ports(river.route))
    IN  [i \in 1..Len(river.voyages) |->
            river_event(river.voyages[i], transfer_port)]
        \o
        [i \in 1..Len(sea.voyages) |->
            sea_event(sea.voyages[i], transfer_port)]

\* insert_sorted of a sort that puts equal keys in front
insert_sorted_unstable(sorted, e) ==
    LET n == Cardinality({ j \in 1..Len(sorted) : sorted[j].time < e.time })
    IN  SubSeq(sorted, 1, n) \o <<e>> \o SubSeq(sorted, n + 1, Len(sorted))

\* insert_sorted of a list left in insertion order
insert_sorted_append(sorted, e) == Append(sorted, e)

\* where a stable sort puts event e in an already sorted list: behind
\* every element whose key is not greater
insert_sorted(sorted, e) ==
    LET n == Cardinality({ j \in 1..Len(sorted) : sorted[j].time <= e.time })
    IN  SubSeq(sorted, 1, n) \o <<e>> \o SubSeq(sorted, n + 1, Len(sorted))

\* events.sort(key=lambda x: x["time"]): list.sort is stable
RECURSIVE sort_from(_, _, _)
sort_from(events, i, sorted) ==
    IF i > Len(events) THEN sorted
    ELSE sort_from(events, i + 1, insert_sorted(sorted, events[i]))

sort_by_time(events) == sort_from(events, 1, <<>>)

\* apply_event without the check against capacity
apply_event_unclamped(level, capacity, event) ==
    IF event.type = "river_arrival" THEN level + event.volume
    ELSE LET lowered == level - event.volume
         IN  IF lowered < 0 THEN 0 ELSE lowered

\* apply_event with the comparison of the lower clamp turned round
apply_event_flipped(level, capacity, event) ==
    IF event.type = "river_arrival" THEN
        LET raised == level + event.volume
        IN  IF raised > capacity THEN capacity ELSE raised
    ELSE
        LET lowered == level - event.volume
        IN  IF lowered > 0 THEN 0 ELSE lowered

\* apply_event refusing an outflow larger than the level
apply_event_refusing(level, capacity, event) ==
    IF event.type = "river_arrival" THEN
        LET raised == level + event.volume
        IN  IF raised > capacity THEN capacity ELSE raised
    ELSE
        IF event.volume > level THEN level ELSE level - event.volume

\* the level after one event (lines 170-173 and 182-185)
apply_event(level, capacity, event) ==
    IF event.type = "river_arrival" THEN
        LET raised == level + event.volume
        IN  IF raised > capacity THEN capacity ELSE raised
    ELSE
        LET lowered == level - event.volume
        IN  IF lowered < 0 THEN 0 ELSE lowered

\* the tank_log entry of one event (lines 174-180 and 186-192)
log_entry(event, level) ==
    [time |-> event.time,
     ship |-> event.ship,
     action |-> <<event.type, event.volume>>,
     tank_level |-> level,
     port |-> event.port]

\* for event in self.events, from index i on
RECURSIVE replay(_, _, _, _, _)
replay(events, i, capacity, level, tank_log) ==
    IF i > Len(events) THEN [level |-> level, tank_log |-> tank_log]
    ELSE LET after == apply_event(level, capacity, events[i])
         IN  replay(events, i + 1, capacity, after,
                    Append(tank_log, log_entry(events[i], after)))

\* _simulate raises IndexError: get_ports on an empty leg list (line 54),
\* or itinerary[0] of a sea voyage of a route without legs (line 158)
_simulate_raises(river, sea) ==
    \/ get_ports_raises(river.route)
    \/ \E i \in 1..Len(sea.voyages) : sea.voyages[i].itinerary = <<>>

\* initial_level of a level shared with the simulation run before
initial_level_carried == tank_sim.level

\* self.level = 0
initial_level == 0

\* TankSimulation dropping its events once they are replayed
TankSimulation_discarding(capacity, river, sea) ==
    LET events == sort_by_time(build_events(river, sea))
        played == replay(events, 1, capacity, initial_level, <<>>)
    IN  [capacity |-> capacity,
         level |-> played.level,
         events |-> <<>>,
         tank_log |-> played.tank_log]

\* TankSimulation.__init__ with _simulate
TankSimulation(capacity, river, sea) ==
    LET events == sort_by_time(build_events(river, sea))
        played == replay(events, 1, capacity, initial_level, <<>>)
    IN  [capacity |-> capacity,
         level |-> played.level,
         events |-> events,
         tank_log |-> played.tank_log]

(***************************************************************************)
(* Summary metrics (export_to_excel, sheet 4)                              *)
(***************************************************************************)
Max(S) == CHOOSE x \in S : \A y \in S : y <= x

Min(S) == CHOOSE x \in S : \A y \in S : x <= y

\* [l['tank_level'] for l in tank_sim.tank_log]
tank_levels(tank_log) == { tank_log[i].tank_level : i \in 1..Len(tank_log) }

\* cycle_base taken as the earliest first departure of both fleets
cycle_base_global_min(river, sea) ==
    LET all == river.voyages \o sea.voyages
    IN  Min({ all[i].itinerary[1].departure : i \in 1..Len(all) })

\* river_scheduler.voyages[0]['itinerary'][0]['departure']
cycle_base(river, sea) == river.voyages[1].itinerary[1].departure

\* max([(v['arrival_final'] - base).days for v in river.voyages + sea.voyages])
total_days(river, sea) ==
    LET all == river.voyages \o sea.voyages
        base == cycle_base(river, sea)
    IN  Max({ days(all[i].arrival_final - base) : i \in 1..Len(all) })

\* the exception the summary values raise, in evaluation order: max() of an
\* empty list (line 239), then voyages[0] / itinerary[0] (line 244)
summary_exception(river, sea, sim) ==
    IF sim.tank_log = <<>> THEN "ValueError"
    ELSE IF river.voyages = <<>> THEN "IndexError"
    ELSE IF river.voyages[1].itinerary = <<>> THEN "IndexError"
    ELSE "none"

summary_values(river, sea, sim) ==
    [max_level |-> Max(tank_levels(sim.tank_log)),
     min_level |-> Min(tank_levels(sim.tank_log)),
     total_days |-> total_days(river, sea)]

(***************************************************************************)
(* The program: the two schedulers are constructed, then the simulation    *)
(* over them, then the summary is computed.                                *)
(***************************************************************************)
Components == {"river", "sea", "tank", "summary"}

\* values held before an object exists
NoScheduler ==
    [route |-> Route("none", <<>>, 0), start_date |-> 0, num_ships |-> 0,
     interval_days |-> 0, voyages |-> <<>>]

NoSimulation == [capacity |-> 0, level |-> 0, events |-> <<>>, tank_log |-> <<>>]

NoSummary == [max_level |-> 0, min_level |-> 0, total_days |-> 0]

Init ==
    /\ river_scheduler = NoScheduler
    /\ sea_scheduler = NoScheduler
    /\ tank_sim = NoSimulation
    /\ summary = NoSummary
    /\ status = [c \in Components |-> "unbuilt"]
    /\ error = [c \in Components |-> "none"]
    /\ runs = 0

\* river_scheduler = VoyageScheduler(...) / sea_scheduler = VoyageScheduler(...)
NewVoyageScheduler(fleet) ==
    /\ status[fleet] = "unbuilt"
    /\ \E route \in RouteChoices(fleet),
          start_date \in StartChoices(fleet),
          num_ships \in NumShipsChoices(fleet),
          interval_days \in IntervalChoices(fleet) :
            LET built == VoyageScheduler(route, start_date, num_ships, interval_days)
            IN  /\ river_scheduler' =
                       IF fleet = "river" THEN built ELSE river_scheduler
                /\ sea_scheduler' =
                       IF fleet = "sea" THEN built ELSE sea_scheduler
    /\ status' = [status EXCEPT ![fleet] = "built"]
    /\ UNCHANGED <<tank_sim, summary, error, runs>>

\* tank_sim = TankSimulation(tank_capacity, river_scheduler, sea_scheduler):
\* a new simulation over the two schedulers, which may be run again before
\* the summary is taken
NewTankSimulation ==
    /\ status["river"] = "built"
    /\ status["sea"] = "built"
    /\ status["tank"] # "raised"
    /\ status["summary"] = "unbuilt"
    /\ runs < MaxRuns
    /\ runs' = runs + 1
    /\ \E capacity \in TankCapacityChoices :
          IF _simulate_raises(river_scheduler, sea_scheduler) THEN
              /\ status' = [status EXCEPT !["tank"] = "raised"]
              /\ error' = [error EXCEPT !["tank"] = "IndexError"]
              /\ UNCHANGED tank_sim
          ELSE
              /\ tank_sim' = TankSimulation(capacity, river_scheduler, sea_scheduler)
              /\ status' = [status EXCEPT !["tank"] = "built"]
              /\ UNCHANGED error
    /\ UNCHANGED <<river_scheduler, sea_scheduler, summary>>

\* the summary values of export_to_excel(river_scheduler, sea_scheduler, tank_sim)
ExportSummary ==
    /\ status["tank"] = "built"
    /\ status["summary"] = "unbuilt"
    /\ LET exc == summary_exception(river_scheduler, sea_scheduler, tank_sim)
       IN  IF exc # "none" THEN
               /\ status' = [status EXCEPT !["summary"] = "raised"]
               /\ error' = [error EXCEPT !["summary"] = exc]
               /\ UNCHANGED summary
           ELSE
               /\ summary' = summary_values(river_scheduler, sea_scheduler, tank_sim)
               /\ status' = [status EXCEPT !["summary"] = "built"]
               /\ UNCHANGED error
    /\ UNCHANGED <<river_scheduler, sea_scheduler, tank_sim, runs>>

Next ==
    \/ \E fleet \in Fleets : NewVoyageScheduler(fleet)
    \/ NewTankSimulation
    \/ ExportSummary

Spec == Init /\ [][Next]_vars

(***************************************************************************)
(* Properties                                                              *)
(***************************************************************************)
Built(c) == status[c] = "built"

\* +volume of an inflow, -volume of an outflow
signed_volume(event) ==
    IF event.type = "river_arrival" THEN event.volume ELSE 0 - event.volume

\* cumulative inflow minus cumulative outflow over the first i events
RECURSIVE prefix_sum(_, _)
prefix_sum(events, i) ==
    IF i = 0 THEN 0 ELSE prefix_sum(events, i - 1) + signed_volume(events[i])

\* the level before log entry i
level_before(tank_log, i) == IF i = 1 THEN 0 ELSE tank_log[i - 1].tank_level

\* C1: with a capacity > 0, the level after every replayed event (the
\* tank_level of every tank_log entry) and the final level are >= 0 and
\* <= capacity.
C1_LevelWithinBounds ==
    (Built("tank") /\ tank_sim.capacity > 0) =>
        /\ 0 <= tank_sim.level
        /\ tank_sim.level <= tank_sim.capacity
        /\ \A i \in 1..Len(tank_sim.tank_log) :
              /\ 0 <= tank_sim.tank_log[i].tank_level
              /\ tank_sim.tank_log[i].tank_level <= tank_sim.capacity

\* a run with capacity > 0 in which an inflow was cut at capacity and an
\* outflow was cut at 0
C1_Witness ==
    /\ Built("tank")
    /\ tank_sim.capacity > 0
    /\ \E i, j \in 1..Len(tank_sim.tank_log) :
          /\ tank_sim.events[i].type = "river_arrival"
          /\ level_before(tank_sim.tank_log, i) + tank_sim.events[i].volume
                > tank_sim.capacity
          /\ tank_sim.events[j].type = "sea_departure"
          /\ level_before(tank_sim.tank_log, j) - tank_sim.events[j].volume < 0

\* no prefix of the sorted events leaves [0, capacity]
NoClamping ==
    \A i \in 1..Len(tank_sim.events) :
        /\ 0 <= prefix_sum(tank_sim.events, i)
        /\ prefix_sum(tank_sim.events, i) <= tank_sim.capacity

\* C2: if cumulative inflow minus cumulative outflow stays within
\* [0, capacity] after every prefix of the sorted events, the final level is
\* total inflow minus total outflow and every log entry's level is the
\* prefix sum at that point.
C2_Conservation ==
    (Built("tank") /\ NoClamping) =>
        /\ tank_sim.level = prefix_sum(tank_sim.events, Len(tank_sim.events))
        /\ Len(tank_sim.tank_log) = Len(tank_sim.events)
        /\ \A i \in 1..Len(tank_sim.events) :
              tank_sim.tank_log[i].tank_level = prefix_sum(tank_sim.events, i)

\* an unclamped run of at least three events, inflows and outflows, that
\* ends above 0
C2_Witness ==
    /\ Built("tank")
    /\ NoClamping
    /\ Len(tank_sim.events) >= 3
    /\ \E i, j \in 1..Len(tank_sim.events) :
          /\ tank_sim.events[i].type = "river_arrival"
          /\ tank_sim.events[j].type = "sea_departure"
    /\ tank_sim.level > 0

\* C3: an Inflow (river_arrival) and an Outflow (sea_departure) with the same
\* timestamp are applied and logged Inflow first.
C3_InflowFirstOnTie ==
    Built("tank") =>
        \A i, j \in 1..Len(tank_sim.events) :
            ( /\ tank_sim.events[i].type = "river_arrival"
              /\ tank_sim.events[j].type = "sea_departure"
              /\ tank_sim.events[i].time = tank_sim.events[j].time )
            => /\ i < j
               /\ tank_sim.tank_log[i].ship = tank_sim.events[i].ship
               /\ tank_sim.tank_log[i].action[1] = "river_arrival"
               /\ tank_sim.tank_log[j].ship = tank_sim.events[j].ship
               /\ tank_sim.tank_log[j].action[1] = "sea_departure"

\* a run with an Inflow and an Outflow at the same timestamp
C3_Witness ==
    /\ Built("tank")
    /\ \E i, j \in 1..Len(tank_sim.tank_log) :
          /\ tank_sim.tank_log[i].action[1] = "river_arrival"
          /\ tank_sim.tank_log[j].action[1] = "sea_departure"
          /\ tank_sim.tank_log[i].time = tank_sim.tank_log[j].time

\* the indices of the events of one type and ship
events_of(type, ship_name) ==
    { i \in 1..Len(tank_sim.events) :
        /\ tank_sim.events[i].type = type
        /\ tank_sim.events[i].ship = ship_name }

events_of_type(type) ==
    { i \in 1..Len(tank_sim.events) : tank_sim.events[i].type = type }

\* the last port of the inflow route
TransferPort == river_scheduler.route.legs[Len(river_scheduler.route.legs)].port_to

\* C4: every voyage of the inflow scheduler has exactly one Inflow event; its
\* time is the arrival of the voyage's last stop, its volume the voyage's
\* vessel capacity and its port the last port of the inflow route.
C4_InflowEventPerVoyage ==
    Built("tank") =>
        /\ Cardinality(events_of_type("river_arrival")) = Len(river_scheduler.voyages)
        /\ \A k \in 1..Len(river_scheduler.voyages) :
              LET voyage == river_scheduler.voyages[k]
                  found == events_of("river_arrival", voyage.ship_name)
              IN  /\ Cardinality(found) = 1
                  /\ \A i \in found :
                        /\ tank_sim.events[i].time =
                              voyage.itinerary[Len(voyage.itinerary)].arrival
                        /\ tank_sim.events[i].volume = river_scheduler.route.ship_capacity
                        /\ tank_sim.events[i].volume = voyage.capacity
                        /\ tank_sim.events[i].port = TransferPort

\* a run over two inflow voyages of a route with several legs, where the last
\* stop's arrival differs from its operation_end and from the first arrival
C4_Witness ==
    /\ Built("tank")
    /\ Len(river_scheduler.voyages) >= 2
    /\ Len(river_scheduler.route.legs) >= 2
    /\ \A k \in 1..Len(river_scheduler.voyages) :
          LET it == river_scheduler.voyages[k].itinerary
          IN  /\ it[Len(it)].arrival # it[Len(it)].operation_end
              /\ it[Len(it)].arrival # it[1].arrival
    /\ Cardinality(events_of_type("river_arrival")) = Len(river_scheduler.voyages)

\* C5: every voyage of the outflow scheduler has exactly one Outflow event;
\* its time is the departure of the voyage's first stop, which is
\* start_date + (k-1)*interval for vessel k, its volume the outflow vessel
\* capacity and its port the inflow route's terminal port.
C5_OutflowEventPerVoyage ==
    Built("tank") =>
        /\ Cardinality(events_of_type("sea_departure")) = Len(sea_scheduler.voyages)
        /\ \A k \in 1..Len(sea_scheduler.voyages) :
              LET voyage == sea_scheduler.voyages[k]
                  found == events_of("sea_departure", voyage.ship_name)
              IN  /\ Cardinality(found) = 1
                  /\ \A i \in found :
                        /\ tank_sim.events[i].time = voyage.itinerary[1].departure
                        /\ tank_sim.events[i].time =
                              sea_scheduler.start_date
                                  + (k - 1) * sea_scheduler.interval_days
                        /\ tank_sim.events[i].volume = sea_scheduler.route.ship_capacity
                        /\ tank_sim.events[i].port = TransferPort

\* a run over two outflow voyages leaving at different times
C5_Witness ==
    /\ Built("tank")
    /\ Len(sea_scheduler.voyages) >= 2
    /\ sea_scheduler.interval_days > 0
    /\ Len(river_scheduler.voyages) >= 1
    /\ Cardinality(events_of_type("sea_departure")) = Len(sea_scheduler.voyages)

\* the scheduler of a fleet
scheduler_of(fleet) == IF fleet = "river" THEN river_scheduler ELSE sea_scheduler

\* C6: a scheduler built with vessel_count = n (n >= 0) and interval d >= 0
\* holds exactly n voyages with ship_id 1..n in order, and the first stop of
\* voyage k departs at start_date + (k-1)*d.
C6_DepartureSpacing ==
    \A fleet \in Fleets :
        LET sch == scheduler_of(fleet)
        IN  (Built(fleet) /\ sch.num_ships >= 0 /\ sch.interval_days >= 0) =>
                /\ Len(sch.voyages) = sch.num_ships
                /\ \A k \in 1..Len(sch.voyages) :
                      /\ sch.voyages[k].ship_id = k
                      /\ sch.voyages[k].itinerary # <<>> =>
                            sch.voyages[k].itinerary[1].departure =
                                sch.start_date + (k - 1) * sch.interval_days

\* a scheduler of two ships with a positive interval and a route with legs
C6_Witness ==
    \E fleet \in Fleets :
        LET sch == scheduler_of(fleet)
        IN  /\ Built(fleet)
            /\ sch.num_ships >= 2
            /\ sch.interval_days > 0
            /\ Len(sch.voyages) = sch.num_ships
            /\ sch.voyages[2].itinerary # <<>>
            /\ sch.voyages[2].itinerary[1].departure > sch.start_date

\* C7: in every voyage of every scheduler each stop after the first departs
\* exactly when the previous stop's operation ends.
C7_Chaining ==
    \A fleet \in Fleets :
        Built(fleet) =>
            \A k \in 1..Len(scheduler_of(fleet).voyages) :
                LET it == scheduler_of(fleet).voyages[k].itinerary
                IN  \A i \in 2..Len(it) : it[i].departure = it[i - 1].operation_end

\* a voyage of several legs whose first operation takes time
C7_Witness ==
    \E fleet \in Fleets :
        /\ Built(fleet)
        /\ \E k \in 1..Len(scheduler_of(fleet).voyages) :
              LET it == scheduler_of(fleet).voyages[k].itinerary
              IN  /\ Len(it) >= 2
                  /\ it[1].operation_end > it[1].arrival
                  /\ it[2].departure = it[1].operation_end

\* C8: a VoyageScheduler with vessel_count <= 0 or an empty leg list, and a
\* TankSimulation with capacity <= 0, are rejected at construction: no such
\* object is built, and the attempt ends in a validation error.
C8_InvalidConfigurationRejected ==
    /\ \A fleet \in Fleets :
          status[fleet] # "unbuilt" =>
              \/ /\ scheduler_of(fleet).num_ships >= 1
                 /\ scheduler_of(fleet).route.legs # <<>>
              \/ /\ status[fleet] = "raised"
                 /\ error[fleet] = "InvalidConfiguration"
    /\ Built("tank") => tank_sim.capacity > 0

\* C9: the max/min level metrics over an empty log end in a distinct "no
\* data" EmptyResultError.
C9_EmptyLogSignalsNoData ==
    (Built("tank") /\ tank_sim.tank_log = <<>> /\ status["summary"] # "unbuilt") =>
        /\ status["summary"] = "raised"
        /\ error["summary"] = "EmptyResultError"

\* all voyages of both schedulers
AllVoyages ==
    { river_scheduler.voyages[i] : i \in 1..Len(river_scheduler.voyages) }
        \cup { sea_scheduler.voyages[i] : i \in 1..Len(sea_scheduler.voyages) }

\* the first stop's departure of the first-generated inflow voyage
FirstInflowDeparture == river_scheduler.voyages[1].itinerary[1].departure

\* C10: cycle_length is the maximum over all voyages of both schedulers of
\* the whole days (floor) from B to the voyage's final arrival, B being the
\* first stop's departure of the first-generated inflow voyage, also when the
\* outflow fleet starts earlier.
C10_CycleLength ==
    Built("summary") =>
        /\ \E v \in AllVoyages :
              /\ summary.total_days * UnitsPerDay
                    <= v.arrival_final - FirstInflowDeparture
              /\ v.arrival_final - FirstInflowDeparture
                    < (summary.total_days + 1) * UnitsPerDay
        /\ \A v \in AllVoyages :
              v.arrival_final - FirstInflowDeparture
                  < (summary.total_days + 1) * UnitsPerDay

\* a summary over fleets where an outflow voyage leaves before the first
\* inflow voyage and the latest final arrival is no whole number of days
\* after B
C10_Witness ==
    /\ Built("summary")
    /\ \E i \in 1..Len(sea_scheduler.voyages) :
          sea_scheduler.voyages[i].itinerary[1].departure < FirstInflowDeparture
    /\ \E v \in AllVoyages :
          /\ \A w \in AllVoyages : w.arrival_final <= v.arrival_final
          /\ (v.arrival_final - FirstInflowDeparture) % UnitsPerDay # 0
          /\ summary.total_days * UnitsPerDay
                < v.arrival_final - FirstInflowDeparture

\* duration_days + operation_days summed over the first n legs
RECURSIVE legs_time(_, _)
legs_time(legs, n) ==
    IF n = 0 THEN 0
    ELSE legs_time(legs, n - 1) + legs[n].duration_days + legs[n].operation_days

\* C11: arrival_final of a voyage is its departure plus the sum over all legs
\* of transit and operation duration; total_voyage_time is that sum floored
\* to whole days, never rounded up, and is the same for every vessel of the
\* scheduler whatever the interval.
C11_FloorTruncation ==
    \A fleet \in Fleets :
        Built(fleet) =>
            LET sch == scheduler_of(fleet)
                sum == legs_time(sch.route.legs, Len(sch.route.legs))
            IN  \A k \in 1..Len(sch.voyages) :
                    /\ sch.voyages[k].arrival_final =
                          sch.start_date + (k - 1) * sch.interval_days + sum
                    /\ sch.voyages[k].total_voyage_time * UnitsPerDay <= sum
                    /\ sum < (sch.voyages[k].total_voyage_time + 1) * UnitsPerDay
                    /\ sch.voyages[k].total_voyage_time =
                          sch.voyages[1].total_voyage_time

\* two vessels a fraction of a day apart on a route that takes a fraction of
\* a day more than total_voyage_time
C11_Witness ==
    \E fleet \in Fleets :
        LET sch == scheduler_of(fleet)
            sum == legs_time(sch.route.legs, Len(sch.route.legs))
        IN  /\ Built(fleet)
            /\ Len(sch.voyages) >= 2
            /\ sch.interval_days % UnitsPerDay # 0
            /\ sum % UnitsPerDay # 0
            /\ sch.voyages[2].total_voyage_time * UnitsPerDay < sum

\* C12: a scheduler built with interval = 0 and vessel_count = n >= 1 holds n
\* voyages whose stops have the same departure, arrival and operation_end,
\* every vessel leaving at start_date; a simulation over such schedulers has
\* one event and one log entry per voyage.
C12_SimultaneousDepartures ==
    /\ \A fleet \in Fleets :
          LET sch == scheduler_of(fleet)
          IN  (Built(fleet) /\ sch.interval_days = 0 /\ sch.num_ships >= 1) =>
                  /\ Len(sch.voyages) = sch.num_ships
                  /\ \A k \in 1..Len(sch.voyages) :
                        /\ Len(sch.voyages[k].itinerary) = Len(sch.route.legs)
                        /\ \A i \in 1..Len(sch.voyages[k].itinerary) :
                              LET stop == sch.voyages[k].itinerary[i]
                                  first == sch.voyages[1].itinerary[i]
                              IN  /\ stop.departure = first.departure
                                  /\ stop.arrival = first.arrival
                                  /\ stop.operation_end = first.operation_end
                                  /\ i = 1 => stop.departure = sch.start_date
    /\ ( /\ Built("tank")
         /\ river_scheduler.interval_days = 0
         /\ sea_scheduler.interval_days = 0 ) =>
            /\ Len(tank_sim.events) =
                  Len(river_scheduler.voyages) + Len(sea_scheduler.voyages)
            /\ Len(tank_sim.tank_log) = Len(tank_sim.events)

\* a simulation over two fleets of two vessels each, both with interval 0
C12_Witness ==
    /\ Built("tank")
    /\ river_scheduler.interval_days = 0
    /\ sea_scheduler.interval_days = 0
    /\ Len(river_scheduler.voyages) >= 2
    /\ Len(sea_scheduler.voyages) >= 2
    /\ river_scheduler.voyages[2].itinerary[1].departure = river_scheduler.start_date
    /\ Len(tank_sim.tank_log) >= 4

\* C13: the tank log has one entry per event, as many as both fleets have
\* voyages, in event-application order with non-decreasing times; it is
\* non-empty whenever each fleet has at least one vessel.
C13_LogChronological ==
    Built("tank") =>
        /\ Len(tank_sim.tank_log) =
              Len(river_scheduler.voyages) + Len(sea_scheduler.voyages)
        /\ \A i \in 1..Len(tank_sim.tank_log) :
              /\ tank_sim.tank_log[i].time = tank_sim.events[i].time
              /\ tank_sim.tank_log[i].ship = tank_sim.events[i].ship
              /\ tank_sim.tank_log[i].action[1] = tank_sim.events[i].type
        /\ \A i \in 2..Len(tank_sim.tank_log) :
              tank_sim.tank_log[i - 1].time <= tank_sim.tank_log[i].time
        /\ (river_scheduler.num_ships >= 1 /\ sea_scheduler.num_ships >= 1) =>
              tank_sim.tank_log # <<>>

\* a log in which an outflow is applied before a later inflow, though every
\* inflow event was appended before every outflow event
C13_Witness ==
    /\ Built("tank")
    /\ Len(tank_sim.tank_log) >= 3
    /\ \E i, j \in 1..Len(tank_sim.tank_log) :
          /\ i < j
          /\ tank_sim.tank_log[i].action[1] = "sea_departure"
          /\ tank_sim.tank_log[j].action[1] = "river_arrival"
          /\ tank_sim.tank_log[i].time < tank_sim.tank_log[j].time

\* min and max of two numbers
Smaller(a, b) == IF a <= b THEN a ELSE b

Larger(a, b) == IF a >= b THEN a ELSE b

\* C14: replay starts at level 0 and applies to each event in sorted order
\* min(level + volume, capacity) for an Inflow and max(level - volume, 0) for
\* an Outflow; a clamped event raises nothing and still appends its log entry
\* with the clamped level, so every entry's level is that function of the
\* previous entry's level.
C14_ReplayUpdate ==
    Built("tank") =>
        /\ error["tank"] = "none"
        /\ Len(tank_sim.tank_log) = Len(tank_sim.events)
        /\ \A i \in 1..Len(tank_sim.tank_log) :
              LET before == level_before(tank_sim.tank_log, i)
                  volume == tank_sim.events[i].volume
              IN  /\ tank_sim.tank_log[i].action = <<tank_sim.events[i].type, volume>>
                  /\ tank_sim.tank_log[i].tank_level =
                        IF tank_sim.events[i].type = "river_arrival"
                        THEN Smaller(before + volume, tank_sim.capacity)
                        ELSE Larger(before - volume, 0)
        /\ tank_sim.level =
              level_before(tank_sim.tank_log, Len(tank_sim.tank_log) + 1)

\* a run in which an outflow larger than a positive level is cut at 0 and a
\* later event is still logged
C14_Witness ==
    /\ Built("tank")
    /\ \E i \in 2..Len(tank_sim.tank_log) :
          /\ tank_sim.events[i].type = "sea_departure"
          /\ tank_sim.tank_log[i - 1].tank_level > 0
          /\ tank_sim.events[i].volume > tank_sim.tank_log[i - 1].tank_level
          /\ tank_sim.tank_log[i].tank_level = 0
          /\ i < Len(tank_sim.tank_log)

\* C15: for every stop of every voyage, arrival = departure + the leg's
\* transit duration and operation_end = arrival + the leg's operation
\* duration; leg_no is the stop's 1-based position in the route's leg order
\* and the itinerary holds one stop per leg.
C15_StopTimes ==
    \A fleet \in Fleets :
        Built(fleet) =>
            LET sch == scheduler_of(fleet)
            IN  \A k \in 1..Len(sch.voyages) :
                    /\ Len(sch.voyages[k].itinerary) = Len(sch.route.legs)
                    /\ \A i \in 1..Len(sch.voyages[k].itinerary) :
                          LET stop == sch.voyages[k].itinerary[i]
                              leg == sch.route.legs[i]
                          IN  /\ stop.leg_no = i
                              /\ stop.leg = leg.name
                              /\ stop.arrival = stop.departure + leg.duration_days
                              /\ stop.operation_end = stop.arrival + leg.operation_days

\* a voyage over a route of several legs with different durations
C15_Witness ==
    \E fleet \in Fleets :
        LET sch == scheduler_of(fleet)
        IN  /\ Built(fleet)
            /\ Len(sch.voyages) >= 1
            /\ Len(sch.route.legs) >= 2
            /\ sch.route.legs[1].duration_days # sch.route.legs[2].duration_days
            /\ sch.voyages[1].itinerary[2].leg_no = 2
            /\ sch.voyages[1].itinerary[2].arrival >
                  sch.voyages[1].itinerary[2].departure

\* the statement of C16 as given: once the simulation has run, no event of
\* the event sequence is held in its state
C16_EventsDiscarded == Built("tank") => tank_sim.events = <<>>

\* C16 (amended): once the simulation has run it still holds, besides the
\* log and the level, the sorted event sequence in self.events: one event
\* per voyage of the two schedulers, the i-th being the one log entry i was
\* derived from.
C16_EventsRetained ==
    Built("tank") =>
        /\ Len(tank_sim.events) =
              Len(river_scheduler.voyages) + Len(sea_scheduler.voyages)
        /\ \A i \in 1..Len(tank_sim.tank_log) :
              /\ i <= Len(tank_sim.events)
              /\ tank_sim.events[i].time = tank_sim.tank_log[i].time
              /\ tank_sim.events[i].ship = tank_sim.tank_log[i].ship
              /\ tank_sim.events[i].port = tank_sim.tank_log[i].port
              /\ <<tank_sim.events[i].type, tank_sim.events[i].volume>> =
                    tank_sim.tank_log[i].action

\* a finished simulation over voyages of both fleets
C16_Witness ==
    /\ Built("tank")
    /\ Len(river_scheduler.voyages) >= 1
    /\ Len(sea_scheduler.voyages) >= 1
    /\ Len(tank_sim.tank_log) >= 2
    /\ Len(tank_sim.events) >= 2

\* the ship_id of the vessel of a log entry
entry_ship_id(entry) == entry.ship[2]

\* C18: with intervals >= 0 the Inflow entries appear in the tank log in
\* inflow vessel generation order and the Outflow entries in outflow vessel
\* generation order, also when interval = 0 makes their timestamps equal.
C18_GenerationOrderWithinFleet ==
    ( /\ Built("tank")
      /\ river_scheduler.interval_days >= 0
      /\ sea_scheduler.interval_days >= 0 ) =>
        \A i, j \in 1..Len(tank_sim.tank_log) :
            ( /\ i < j
              /\ tank_sim.tank_log[i].action[1] = tank_sim.tank_log[j].action[1] )
            => entry_ship_id(tank_sim.tank_log[i])
                  < entry_ship_id(tank_sim.tank_log[j])

\* a log of two inflow vessels arriving together and two outflow vessels
\* leaving together
C18_Witness ==
    /\ Built("tank")
    /\ river_scheduler.interval_days = 0
    /\ sea_scheduler.interval_days = 0
    /\ \E i, j, k, l \in 1..Len(tank_sim.tank_log) :
          /\ i < j
          /\ tank_sim.tank_log[i].action[1] = "river_arrival"
          /\ tank_sim.tank_log[j].action[1] = "river_arrival"
          /\ tank_sim.tank_log[i].time = tank_sim.tank_log[j].time
          /\ k < l
          /\ tank_sim.tank_log[k].action[1] = "sea_departure"
          /\ tank_sim.tank_log[l].action[1] = "sea_departure"
          /\ tank_sim.tank_log[k].time = tank_sim.tank_log[l].time

\* C17: running a TankSimulation leaves both schedulers as they were, a
\* scheduler does not change once it is constructed, and a second simulation
\* over the same schedulers with the same capacity starts from level 0 again
\* and yields the same log and final level.
C17_SchedulersUntouched ==
    [][ /\ Built("river") => river_scheduler' = river_scheduler
        /\ Built("sea") => sea_scheduler' = sea_scheduler
        /\ ( /\ Built("tank")
             /\ runs' = runs + 1
             /\ tank_sim'.capacity = tank_sim.capacity ) =>
               /\ tank_sim'.tank_log = tank_sim.tank_log
               /\ tank_sim'.level = tank_sim.level
               /\ tank_sim'.events = tank_sim.events ]_vars

\* a second simulation over the same schedulers, ending above level 0 after
\* inflows and outflows of vessels of both fleets
C17_Witness ==
    /\ Built("tank")
    /\ runs = 2
    /\ Len(river_scheduler.voyages) >= 1
    /\ Len(sea_scheduler.voyages) >= 1
    /\ tank_sim.level > 0
    /\ Len(tank_sim.tank_log) =
          Len(river_scheduler.voyages) + Len(sea_scheduler.voyages)

====
